---- MODULE Spec2Model ----
(***************************************************************************)
(* Phased-array chamber sweep automation (code/array_chamber_test).        *)
(*                                                                         *)
(* The state machine is main() of phased_array_sweep_automation.py with    *)
(* everything it calls: ArrayController, ChamberController and the serial  *)
(* dispatch of HardwareInterface.send_commands.                            *)
(*                                                                         *)
(* Conventions                                                             *)
(*  - frequencies are held in MHz (11600 = 11.6 GHz): the Hz values of     *)
(*    config.py do not fit 32-bit integers;                                *)
(*  - time is counted in ticks of 0.1 s;                                   *)
(*  - elevations of the angle window are held in thousandths of a degree,  *)
(*    so that theta * sin(phi) has a fixed-point value;                    *)
(*  - a command is the template of SystemMessages that produced it and     *)
(*    the arguments bound to its placeholders, [kind, args];               *)
(*  - the measurement collaborator (ChamberClass, whose import is          *)
(*    commented out in the script) is external and taken as supplied: its  *)
(*    call is recorded in `measurements` and returns normally;             *)
(*  - the per-axis random flags of config.py are off in a whole run        *)
(*    (Spec); the random selection is explored on the selection functions  *)
(*    alone (SpecSelect).                                                  *)
(***************************************************************************)
EXTENDS Integers, Sequences, FiniteSets, TLC

VARIABLES
    ARRAY_INTERFACE,          \* config.py: interface mode, fixed for a run
    SWEEP_BOTH_DIRECTIONS,    \* config.py flag
    ELEVATION_PHI_ADJUSTMENT, \* config.py flag
    KU_FREQ_RANGE,            \* config.py: frequencies of the run (MHz)
    PHI_RANGE,                \* config.py: phi angles, expanded
    THETA_RANGE,              \* config.py: theta angles, expanded
    PHI_RANGE_RANDOM,         \* config.py flag
    THETA_RANGE_RANDOM,       \* config.py flag
    phi_angles,               \* what _select_phi_angles returned last
    theta_angles,             \* what _select_theta_angles returned last
    pc,                       \* position of the program
    ret,                      \* where the running dispatch continues
    caller,                   \* the method that asked for the dispatch
    pending,                  \* command lists the caller still has to send
    connected,                \* result of check_connection in power_cycle
    freq_idx,                 \* position of the loop over KU_FREQ_RANGE
    point_idx,                \* position of the phi/theta loops
    direction_forward,        \* ChamberController.direction_forward
    sweep_angles,             \* window computed for the current point
    commands,                 \* send_commands: the list being sent
    cmd_idx,                  \* send_commands: position of the for loop
    elapsed,                  \* send_commands: time.time() - start_time
    no_response,              \* send_commands: "No response" was printed
    ser_open,                 \* the serial port handle is open
    call_start,               \* length of `wire` when send_commands was entered
    waited,                   \* send_commands: time since the command was written
    timeout_wait,             \* `waited` of the command whose window expired, or -1
    wire,                     \* every command written to the link
    measurements,             \* every call of run_sweep_test_swt
    error,                    \* exception that ended the run, or "none"
    failure,                  \* where a link operation raised, or NoFailure
    sweep_name,               \* sweep_runner.sweep_name, NoSweepName until assigned
    call_args,                \* arguments of a function that is called directly
    call_result,              \* what that function returned last
    programmer_runs           \* stm32 flasher: the _run_programmer calls so far

vars == <<ARRAY_INTERFACE, SWEEP_BOTH_DIRECTIONS, ELEVATION_PHI_ADJUSTMENT,
          KU_FREQ_RANGE, PHI_RANGE, THETA_RANGE, PHI_RANGE_RANDOM,
          THETA_RANGE_RANDOM, phi_angles, theta_angles, pc, ret, caller, pending,
          connected, freq_idx, point_idx, direction_forward, sweep_angles,
          commands, cmd_idx, elapsed, no_response, ser_open, call_start,
          waited, timeout_wait, wire, measurements, error, failure,
          sweep_name, call_args, call_result, programmer_runs>>

config == <<ARRAY_INTERFACE, SWEEP_BOTH_DIRECTIONS, ELEVATION_PHI_ADJUSTMENT,
            KU_FREQ_RANGE, PHI_RANGE, THETA_RANGE, PHI_RANGE_RANDOM,
            THETA_RANGE_RANDOM>>

selection == <<phi_angles, theta_angles>>

direct == <<call_args, call_result, programmer_runs>>

ackClock == <<waited, timeout_wait>>

sendState == <<commands, cmd_idx, elapsed, no_response, ser_open, call_start,
               ackClock>>

----------------------------------------------------------------------------
(* Bounds of the model *)

MaxFreqs == 2           \* KU_FREQ_RANGE holds 1..MaxFreqs frequencies

PhiSteps == {90, 180}   \* PHI_RANGE = range(0, 181, step)

ThetaStops == {10, 35}  \* THETA_RANGE = np.arange(0, stop, 5)

----------------------------------------------------------------------------
(* config.py *)

LOCAL_INTERFACE == ""

POINTING_GENERATOR == "app_cli_pointing_generator"

MESSAGE_FORWARDING == "app_cli_message_forewarding"

UNKNOWN_INTERFACE == "some_other_interface"

InterfaceModes == {LOCAL_INTERFACE, POINTING_GENERATOR, MESSAGE_FORWARDING, UNKNOWN_INTERFACE}

MODEM_FREQ == 1500

KU_FREQ_BASE == 11600

TURN_TABLE_ELV_LIMIT == 20

EL_START == 0

EL_FINISH == 0

POL_START == 0

POL_FINISH == 0

AZ_START == -35

AZ_FINISH == 35

HORN_START == 90

HORN_FINISH == 90

POL_ANGLE(mode) == IF mode = LOCAL_INTERFACE THEN 0 ELSE 90

\* range(start, stop, step) / np.arange(start, stop, step), step > 0
RangeList(start, stop, step) ==
    LET n == IF stop > start THEN ((stop - start) + step - 1) \div step ELSE 0
    IN  [i \in 1..n |-> start + (i - 1) * step]

\* KU_FREQ_RANGE with n entries: the configured frequency, then 100 MHz steps
FreqList(n) == [i \in 1..n |-> KU_FREQ_BASE + (i - 1) * 100]

----------------------------------------------------------------------------
(* hardware_interface.py: timing of send_commands, in ticks of 0.1 s *)

SleepTicks == 1     \* time.sleep(0.1) after each write

ReadTimeout == 5    \* serial.Serial(..., timeout=0.5)

AckWindow == 20     \* time.time() - start_time > 2

ElapsedCap == AckWindow + 1

Responses == {"OK", "", "other"}

\* How long a readline() takes: the line is already there, or it arrives (or
\* nothing does) as the read timeout ends
ReadDurations == {0, ReadTimeout}

ReadRaises == "raises"

Min(a, b) == IF a < b THEN a ELSE b

Max(a, b) == IF a > b THEN a ELSE b

\* The clock as it would be if start_time were taken anew before every read
Advance_Restarted(t, d) == Min(t, ElapsedCap)

Advance(t, d) == Min(t + d, ElapsedCap)

\* Python round(): n/m to the nearest integer, ties to even (n >= 0, m > 0)
RoundHalfEven(n, m) ==
    LET q == n \div m
        r == n % m
    IN  IF 2 * r < m THEN q
        ELSE IF 2 * r > m THEN q + 1
        ELSE IF q % 2 = 0 THEN q ELSE q + 1

\* The code as it would be with int(db * 4), without round()
to_attenuation_code_Truncates(db, insertion_loss_db) ==
    LET d == db - insertion_loss_db
    IN  IF d >= 0 THEN (d * 4) \div 10 ELSE 0

\* db and insertion loss in tenths of a dB
to_attenuation_code(db, insertion_loss_db) ==
    LET d == db - insertion_loss_db
    IN  IF d >= 0 THEN RoundHalfEven(d * 4, 10) ELSE 0

----------------------------------------------------------------------------
(* system_messages.py *)

Cmd(kind, args) == [kind |-> kind, args |-> args]

\* get_power_command as it would be with its two templates exchanged
get_power_command_Swapped(enable) ==
    IF enable THEN Cmd("POWER_OFF_CMD", <<>>) ELSE Cmd("POWER_ON_CMD", <<>>)

get_power_command(enable) ==
    IF enable THEN Cmd("POWER_ON_CMD", <<>>) ELSE Cmd("POWER_OFF_CMD", <<>>)

get_pose_commands(pitch) ==
    << Cmd("POSE_CMD", <<0, pitch, 0, 0, 0>>), Cmd("POINTING_GEN_CMD", <<>>) >>

get_pointing_commands(freq, az, el, pol) ==
    << Cmd("MODEM_IF_CMD", <<freq, 1>>),
       Cmd("BEAM_INFO_CMD", <<az, el, freq, pol, 1>>),
       Cmd("POINTING_GEN_CMD", <<>>) >>

----------------------------------------------------------------------------
(* array_controller.py *)

_get_default_attenuation_codes ==
    << [i \in 1..4 |-> to_attenuation_code(0, 16)], <<to_attenuation_code(0, 0)>> >>

_get_rx_atten_commands(f, atten) ==
    << Cmd("BAND_CONFIG_CMD", <<0>>),
       Cmd("CHANNEL_CONFIG_CMD", <<0, f * 1000, MODEM_FREQ * 1000>>) >>
    \o [i \in 1..4 |-> Cmd("BPL_ATTEN_CMD", <<0, i - 1, atten[1][i]>>)]
    \o << Cmd("IF_ATTEN_CMD", <<0, atten[2][1]>>) >>

\* The command lists setup_array sends: none unless the mode is Local.
setup_array(mode, ku_freq, azimuth, elevation) ==
    IF mode # LOCAL_INTERFACE
    THEN <<>>
    ELSE << _get_rx_atten_commands(ku_freq, _get_default_attenuation_codes),
            get_pointing_commands(ku_freq, azimuth, elevation, POL_ANGLE(mode)) >>

Pitch(phi_angle, theta_angle) ==
    IF phi_angle > 90 THEN theta_angle ELSE 360 - theta_angle

_control_pose(phi_angle, theta_angle) ==
    << get_pose_commands(Pitch(phi_angle, theta_angle)) >>

\* control_array: the Local branch builds its list with
\* get_phased_array_commands(array=...), whose parameter is phased_array, so
\* it raises before send_commands; every other mode sends the pose commands.
control_array(mode, ku_freq, phi_angle, theta_angle) ==
    IF mode = LOCAL_INTERFACE
    THEN [raises |-> "TypeError", sends |-> <<>>]
    ELSE [raises |-> "none", sends |-> _control_pose(phi_angle, theta_angle)]

\* The configuration as it would be if no mode had anything to send
ConfigureArray_SendsNothing(mode, ku_freq, phi_angle, theta_angle) ==
    IF mode = MESSAGE_FORWARDING
    THEN [raises |-> "none", sends |-> <<>>]
    ELSE [raises |-> "AttributeError", sends |-> <<>>]

\* The configuration as it would be if the else branch reached _control_pose
ConfigureArray_PoseFallback(mode, ku_freq, phi_angle, theta_angle) ==
    IF mode = MESSAGE_FORWARDING
    THEN control_array(mode, ku_freq, phi_angle, theta_angle)
    ELSE [raises |-> "none", sends |-> _control_pose(phi_angle, theta_angle)]

\* The per-point configuration of run_sweep_sequence: control_array in
\* MessageForwarding mode, array_ctrl.control_pose otherwise; ArrayController
\* has no attribute control_pose (only _control_pose).
ConfigureArray(mode, ku_freq, phi_angle, theta_angle) ==
    IF mode = MESSAGE_FORWARDING
    THEN control_array(mode, ku_freq, phi_angle, theta_angle)
    ELSE [raises |-> "AttributeError", sends |-> <<>>]

----------------------------------------------------------------------------
(* chamber_controller.py *)

num_random_phi == 10

num_random_theta == 10

\* random.randint(a, b): any integer of a..b, both ends included; the two
\* ends stand for the outcomes
randint(a, b) == {a, b}

\* The lists a call of _select_phi_angles can return
_select_phi_angles ==
    IF PHI_RANGE_RANDOM
    THEN [1..num_random_phi -> randint(0, 360)]
    ELSE {PHI_RANGE}

\* _select_theta_angles as it would be if it expanded the phi range
_select_theta_angles_UsesPhiRange ==
    IF THETA_RANGE_RANDOM
    THEN [1..num_random_theta -> randint(5, 50)]
    ELSE {PHI_RANGE}

\* The lists a call of _select_theta_angles can return
_select_theta_angles ==
    IF THETA_RANGE_RANDOM
    THEN [1..num_random_theta -> randint(5, 50)]
    ELSE {THETA_RANGE}

\* The loops as they would be with theta outside and phi inside
PointOrder_ThetaMajor(phis, thetas) ==
    [k \in 1..(Len(phis) * Len(thetas)) |->
        << phis[((k - 1) % Len(phis)) + 1],
           thetas[((k - 1) \div Len(phis)) + 1] >>]

\* for phi_angle in ...: for theta_angle in ...: the points in loop order
PointOrder(phis, thetas) ==
    [k \in 1..(Len(phis) * Len(thetas)) |->
        << phis[((k - 1) \div Len(thetas)) + 1],
           thetas[((k - 1) % Len(thetas)) + 1] >>]

\* sin(radians(phi)) in thousandths, for the multiples of 30 degrees
SinMilli(phi) ==
    LET a == phi % 360
    IN  CASE a \in {0, 180}   -> 0
          [] a \in {30, 150}  -> 500
          [] a \in {60, 120}  -> 866
          [] a = 90           -> 1000
          [] a \in {210, 330} -> -500
          [] a \in {240, 300} -> -866
          [] a = 270          -> -1000

\* The window as it would be if the azimuth were mirrored whenever the
\* direction is backward, whatever SWEEP_BOTH_DIRECTIONS says
_calculate_sweep_angles_IgnoresFlag(both, elevation_adjust, direction, phi_angle, theta_angle) ==
    LET reversed == ~direction
        calc == Min(Max(theta_angle * SinMilli(phi_angle),
                        -(TURN_TABLE_ELV_LIMIT * 1000)),
                    TURN_TABLE_ELV_LIMIT * 1000)
    IN  [az_start    |-> IF reversed THEN -AZ_START ELSE AZ_START,
         az_finish   |-> IF reversed THEN -AZ_FINISH ELSE AZ_FINISH,
         el_start    |-> IF elevation_adjust THEN calc ELSE EL_START * 1000,
         el_finish   |-> IF elevation_adjust THEN calc ELSE EL_FINISH * 1000,
         pol_start   |-> POL_START,
         pol_finish  |-> POL_FINISH,
         horn_start  |-> HORN_START,
         horn_finish |-> HORN_FINISH]

\* The window as it would be without the min/max against the turntable limit
_calculate_sweep_angles_NoClamp(both, elevation_adjust, direction, phi_angle, theta_angle) ==
    LET reversed == both /\ ~direction
        calc == theta_angle * SinMilli(phi_angle)
    IN  [az_start    |-> IF reversed THEN -AZ_START ELSE AZ_START,
         az_finish   |-> IF reversed THEN -AZ_FINISH ELSE AZ_FINISH,
         el_start    |-> IF elevation_adjust THEN calc ELSE EL_START * 1000,
         el_finish   |-> IF elevation_adjust THEN calc ELSE EL_FINISH * 1000,
         pol_start   |-> POL_START,
         pol_finish  |-> POL_FINISH,
         horn_start  |-> HORN_START,
         horn_finish |-> HORN_FINISH]

_calculate_sweep_angles(both, elevation_adjust, direction, phi_angle, theta_angle) ==
    LET reversed == both /\ ~direction
        calc == Min(Max(theta_angle * SinMilli(phi_angle),
                        -(TURN_TABLE_ELV_LIMIT * 1000)),
                    TURN_TABLE_ELV_LIMIT * 1000)
    IN  [az_start    |-> IF reversed THEN -AZ_START ELSE AZ_START,
         az_finish   |-> IF reversed THEN -AZ_FINISH ELSE AZ_FINISH,
         el_start    |-> IF elevation_adjust THEN calc ELSE EL_START * 1000,
         el_finish   |-> IF elevation_adjust THEN calc ELSE EL_FINISH * 1000,
         pol_start   |-> POL_START,
         pol_finish  |-> POL_FINISH,
         horn_start  |-> HORN_START,
         horn_finish |-> HORN_FINISH]

RECURSIVE Digits(_)
\* str(n) of a non-negative integer, as its decimal digits
Digits(n) == IF n < 10 THEN <<n>> ELSE Append(Digits(n \div 10), n % 10)

\* str(f / 1000000000).replace('.', '_'): whole part, '_', fraction digits
\* without trailing zeros (at least one digit)
FormatGHz(mhz) ==
    LET m == mhz % 1000
        frac == IF m = 0 THEN <<0>>
                ELSE IF m % 100 = 0 THEN <<m \div 100>>
                ELSE IF m % 10 = 0 THEN <<m \div 100, (m \div 10) % 10>>
                ELSE <<m \div 100, (m \div 10) % 10, m % 10>>
    IN  [whole |-> Digits(mhz \div 1000), frac |-> frac]

\* The sweep name without its timestamp prefix
_generate_sweep_name(mode, ku_freq, l_band_freq, phi_angle, theta_angle) ==
    [interface |-> mode,
     ku        |-> FormatGHz(ku_freq),
     l         |-> FormatGHz(l_band_freq),
     phi       |-> Digits(phi_angle),
     theta     |-> Digits(theta_angle)]

\* The runner's name before a sweep name has been assigned to it
NoSweepName ==
    [interface |-> "",
     ku        |-> [whole |-> <<>>, frac |-> <<>>],
     l         |-> [whole |-> <<>>, frac |-> <<>>],
     phi       |-> <<>>,
     theta     |-> <<>>]

\* perform_sweep as it would be if it handed the direction back unchanged
PerformSweepReturn_NoFlip(both, direction) == direction

\* return not direction_forward if SWEEP_BOTH_DIRECTIONS else direction_forward
PerformSweepReturn(both, direction) == IF both THEN ~direction ELSE direction

----------------------------------------------------------------------------
(* hardware_interface.py: the acknowledgement loop of send_commands *)

\* The loop as it would be if an expired window raised instead of breaking
AckLoop_TimeoutRaises(response, late) ==
    IF response = ReadRaises THEN "raise"
    ELSE IF late THEN "raise"
    ELSE IF response \in {"OK", ""} THEN "break"
    ELSE "continue"

\* The loop as it would be if an exception of readline() were swallowed
AckLoop_SwallowsError(response, late) ==
    IF response = ReadRaises THEN "break"
    ELSE IF late THEN "break"
    ELSE IF response \in {"OK", ""} THEN "break"
    ELSE "continue"

\* What one pass of `while True:` does after readline() returned `response`
\* (or raised): late is time.time() - start_time > 2 after the read.
AckLoop(response, late) ==
    IF response = ReadRaises THEN "raise"
    ELSE IF late THEN "break"
    ELSE IF response \in {"OK", ""} THEN "break"
    ELSE "continue"

NoFailure == [op |-> "none", wire_len |-> 0, measured |-> 0]

LinkFailure(op) == [op |-> op, wire_len |-> Len(wire), measured |-> Len(measurements)]

----------------------------------------------------------------------------
(* State machine *)

Init ==
    /\ ARRAY_INTERFACE \in InterfaceModes
    /\ SWEEP_BOTH_DIRECTIONS \in BOOLEAN
    /\ ELEVATION_PHI_ADJUSTMENT \in BOOLEAN
    /\ KU_FREQ_RANGE \in {FreqList(n) : n \in 1..MaxFreqs}
    /\ PHI_RANGE \in {RangeList(0, 181, step) : step \in PhiSteps}
    /\ THETA_RANGE \in {RangeList(0, stop, 5) : stop \in ThetaStops}
    /\ PHI_RANGE_RANDOM = FALSE
    /\ THETA_RANGE_RANDOM = FALSE
    /\ phi_angles = <<>>
    /\ theta_angles = <<>>
    /\ pc = "main"
    /\ ret = "none"
    /\ caller = "none"
    /\ pending = <<>>
    /\ connected = "unchecked"
    /\ freq_idx = 0
    /\ point_idx = 0
    /\ direction_forward = TRUE
    /\ sweep_angles = _calculate_sweep_angles(FALSE, FALSE, TRUE, 0, 0)
    /\ commands = <<>>
    /\ cmd_idx = 0
    /\ elapsed = 0
    /\ no_response = FALSE
    /\ ser_open = FALSE
    /\ call_start = 0
    /\ waited = 0
    /\ timeout_wait = -1
    /\ wire = <<>>
    /\ measurements = <<>>
    /\ error = "none"
    /\ failure = NoFailure
    /\ sweep_name = NoSweepName
    /\ call_args = <<>>
    /\ call_result = <<>>
    /\ programmer_runs = <<>>

\* An uncaught exception ends main()
Raise(exc) ==
    /\ pc' = "Done"
    /\ error' = exc

\* The caller sends each list of `lists` with send_commands, then goes on
Dispatch(lists, who, continuation) ==
    IF lists = <<>>
    THEN /\ pc' = continuation
         /\ UNCHANGED <<ret, caller, pending, commands>>
    ELSE /\ pc' = "send_open"
         /\ commands' = Head(lists)
         /\ pending' = Tail(lists)
         /\ ret' = continuation
         /\ caller' = who

\* main(): power_cycle calls check_connection, whose `with serial.Serial(...)`
\* opens the port or raises
CheckConnection ==
    /\ pc = "main"
    /\ \E ok \in BOOLEAN : ser_open' = ok
    /\ pc' = "power_cycle"
    /\ UNCHANGED <<config, direct, sweep_name, selection, ret, caller, pending, connected,
                   freq_idx, point_idx, direction_forward, sweep_angles, commands, cmd_idx,
                   elapsed, no_response, call_start, ackClock, wire, measurements, error,
                   failure>>

\* check_connection leaves its with block (the port is closed) and returns
\* True, or False from the except branch; power_cycle sends or returns
PowerCycle ==
    /\ pc = "power_cycle"
    /\ ser_open' = FALSE
    /\ IF ser_open
       THEN /\ connected' = "ok"
            /\ Dispatch(<< <<get_power_command(FALSE)>>, <<get_power_command(TRUE)>> >>,
                        "power_cycle", "run_static_pose_sweep")
       ELSE /\ connected' = "failed"
            /\ pc' = "run_static_pose_sweep"
            /\ UNCHANGED <<ret, caller, pending, commands>>
    /\ UNCHANGED <<config, direct, sweep_name, selection, freq_idx, point_idx, direction_forward, sweep_angles,
                   cmd_idx, elapsed, no_response, call_start, ackClock, wire,
                   measurements, error, failure>>

\* send_commands: ser = serial.Serial(port, baud, timeout=0.5); start_time
SendOpen ==
    /\ pc = "send_open"
    /\ \E ok \in BOOLEAN :
         IF ok
         THEN /\ ser_open' = TRUE
              /\ call_start' = Len(wire)
              /\ waited' = 0
              /\ timeout_wait' = -1
              /\ elapsed' = 0
              /\ cmd_idx' = 1
              /\ no_response' = FALSE
              /\ pc' = IF commands = <<>> THEN "send_close" ELSE "send_write"
              /\ UNCHANGED <<error, failure>>
         ELSE /\ Raise("SerialException")
              /\ failure' = LinkFailure("open")
              /\ UNCHANGED <<ser_open, call_start, elapsed, cmd_idx, no_response,
                             ackClock>>
    /\ UNCHANGED <<config, direct, sweep_name, selection, ret, caller, pending, connected, freq_idx, point_idx,
                   direction_forward, sweep_angles, commands, wire, measurements>>

\* send_commands: ser.write(command); time.sleep(0.1)
SendWrite ==
    /\ pc = "send_write"
    /\ \E ok \in BOOLEAN :
         IF ok
         THEN /\ wire' = Append(wire, [cmd |-> commands[cmd_idx], caller |-> caller,
                                       freq_idx |-> freq_idx, point_idx |-> point_idx])
              /\ elapsed' = Advance(elapsed, SleepTicks)
              /\ waited' = Advance(0, SleepTicks)
              /\ timeout_wait' = -1
              /\ pc' = "send_read"
              /\ UNCHANGED <<ser_open, error, failure>>
         ELSE /\ Raise("SerialException")
              /\ failure' = LinkFailure("write")
              /\ ser_open' = FALSE
              /\ UNCHANGED <<wire, elapsed, ackClock>>
    /\ UNCHANGED <<config, direct, sweep_name, selection, ret, caller, pending, connected, freq_idx, point_idx,
                   direction_forward, sweep_angles, commands, cmd_idx, no_response,
                   call_start, measurements>>

\* send_commands: one pass of the acknowledgement loop
SendRead ==
    /\ pc = "send_read"
    /\ \E response \in Responses \cup {ReadRaises}, d \in ReadDurations :
         /\ response = "" => d = ReadTimeout
         /\ LET now == Advance(elapsed, d)
                late == now > AckWindow
                outcome == AckLoop(response, late)
            IN  /\ elapsed' = now
                /\ waited' = Advance(waited, d)
                /\ timeout_wait' = IF outcome = "break" /\ late
                                   THEN Advance(waited, d) ELSE timeout_wait
                /\ failure' = IF response = ReadRaises THEN LinkFailure("read") ELSE failure
                /\ CASE outcome = "raise" ->
                          /\ Raise("SerialException")
                          /\ ser_open' = FALSE
                          /\ UNCHANGED <<cmd_idx, no_response>>
                     [] outcome = "continue" ->
                          /\ pc' = "send_read"
                          /\ UNCHANGED <<cmd_idx, no_response, ser_open, error>>
                     [] outcome = "break" ->
                          /\ no_response' = (no_response \/ late)
                          /\ IF cmd_idx < Len(commands)
                             THEN cmd_idx' = cmd_idx + 1 /\ pc' = "send_write"
                             ELSE cmd_idx' = cmd_idx /\ pc' = "send_close"
                          /\ UNCHANGED <<ser_open, error>>
    /\ UNCHANGED <<config, direct, sweep_name, selection, ret, caller, pending, connected, freq_idx, point_idx,
                   direction_forward, sweep_angles, commands, call_start, wire,
                   measurements>>

\* send_commands as it would be without ser.close() in its finally block
SendClose_LeavesOpen ==
    /\ pc = "send_close"
    /\ ser_open' = ser_open
    /\ elapsed' = 0
    /\ waited' = 0
    /\ timeout_wait' = -1
    /\ cmd_idx' = 0
    /\ IF pending # <<>>
       THEN /\ commands' = Head(pending)
            /\ pending' = Tail(pending)
            /\ pc' = "send_open"
       ELSE /\ commands' = <<>>
            /\ pending' = <<>>
            /\ pc' = ret
    /\ UNCHANGED <<config, direct, sweep_name, selection, ret, caller, connected, freq_idx, point_idx,
                   direction_forward, sweep_angles, no_response, call_start, wire,
                   measurements, error, failure>>

\* send_commands: finally: ser.close(); time.sleep(0.1); return to the caller,
\* which sends its next list or goes on
SendClose ==
    /\ pc = "send_close"
    /\ ser_open' = FALSE
    /\ elapsed' = 0
    /\ waited' = 0
    /\ timeout_wait' = -1
    /\ cmd_idx' = 0
    /\ IF pending # <<>>
       THEN /\ commands' = Head(pending)
            /\ pending' = Tail(pending)
            /\ pc' = "send_open"
       ELSE /\ commands' = <<>>
            /\ pending' = <<>>
            /\ pc' = ret
    /\ UNCHANGED <<config, direct, sweep_name, selection, ret, caller, connected, freq_idx, point_idx,
                   direction_forward, sweep_angles, no_response, call_start, wire,
                   measurements, error, failure>>

\* run_static_pose_sweep: the controllers are constructed
RunStaticPoseSweep ==
    /\ pc = "run_static_pose_sweep"
    /\ direction_forward' = TRUE
    /\ freq_idx' = 1
    /\ pc' = "run_sweep_sequence"
    /\ UNCHANGED <<config, direct, sweep_name, selection, ret, caller, pending, connected, point_idx, sweep_angles,
                   sendState, wire, measurements, error, failure>>

\* run_sweep_sequence as it would be if every frequency began forward again
RunSweepSequence_ResetsDirection ==
    /\ pc = "run_sweep_sequence"
    /\ direction_forward' = TRUE
    /\ IF freq_idx > Len(KU_FREQ_RANGE)
       THEN /\ pc' = "Done"
            /\ UNCHANGED <<ret, caller, pending, commands, point_idx, selection>>
       ELSE /\ point_idx' = 1
            /\ phi_angles' \in _select_phi_angles
            /\ theta_angles' \in _select_theta_angles
            /\ Dispatch(IF ARRAY_INTERFACE = POINTING_GENERATOR
                        THEN setup_array(ARRAY_INTERFACE, KU_FREQ_RANGE[freq_idx], 0, 90)
                        ELSE <<>>,
                        "setup_array", "control")
    /\ UNCHANGED <<config, direct, sweep_name, connected, freq_idx, sweep_angles,
                   cmd_idx, elapsed, no_response, ser_open, call_start, ackClock, wire,
                   measurements, error, failure>>

\* for ku_freq in KU_FREQ_RANGE: run_sweep_sequence, up to the first point
RunSweepSequence ==
    /\ pc = "run_sweep_sequence"
    /\ IF freq_idx > Len(KU_FREQ_RANGE)
       THEN /\ pc' = "Done"
            /\ UNCHANGED <<ret, caller, pending, commands, point_idx, selection>>
       ELSE /\ point_idx' = 1
            /\ phi_angles' \in _select_phi_angles
            /\ theta_angles' \in _select_theta_angles
            /\ Dispatch(IF ARRAY_INTERFACE = POINTING_GENERATOR
                        THEN setup_array(ARRAY_INTERFACE, KU_FREQ_RANGE[freq_idx], 0, 90)
                        ELSE <<>>,
                        "setup_array", "control")
    /\ UNCHANGED <<config, direct, sweep_name, connected, freq_idx, direction_forward, sweep_angles,
                   cmd_idx, elapsed, no_response, ser_open, call_start, ackClock, wire,
                   measurements, error, failure>>

CurrentPoint == PointOrder(phi_angles, theta_angles)[point_idx]

\* run_sweep_sequence: "Configure array" of one point
Control ==
    /\ pc = "control"
    /\ LET c == ConfigureArray(ARRAY_INTERFACE, KU_FREQ_RANGE[freq_idx],
                               CurrentPoint[1], CurrentPoint[2])
       IN  IF c.raises # "none"
           THEN /\ Raise(c.raises)
                /\ UNCHANGED <<ret, caller, pending, commands>>
           ELSE /\ Dispatch(c.sends, "control_array", "perform_sweep")
                /\ UNCHANGED error
    /\ UNCHANGED <<config, direct, sweep_name, selection, connected, freq_idx, point_idx, direction_forward,
                   sweep_angles, cmd_idx, elapsed, no_response, ser_open, call_start,
                   ackClock, wire, measurements, failure>>

\* perform_sweep: the window of the point
PerformSweep ==
    /\ pc = "perform_sweep"
    /\ sweep_angles' = _calculate_sweep_angles(SWEEP_BOTH_DIRECTIONS,
                           ELEVATION_PHI_ADJUSTMENT, direction_forward,
                           CurrentPoint[1], CurrentPoint[2])
    /\ pc' = "run_chamber_sweep"
    /\ UNCHANGED <<config, direct, sweep_name, selection, ret, caller, pending, connected, freq_idx, point_idx,
                   direction_forward, sendState, wire, measurements, error, failure>>

\* _run_chamber_sweep: the sweep name is generated and assigned to the runner
RunChamberSweep ==
    /\ pc = "run_chamber_sweep"
    /\ sweep_name' = _generate_sweep_name(ARRAY_INTERFACE, KU_FREQ_RANGE[freq_idx],
                                          MODEM_FREQ, CurrentPoint[1], CurrentPoint[2])
    /\ pc' = "run_sweep_test_swt"
    /\ UNCHANGED <<config, direct, selection, ret, caller, pending, connected, freq_idx,
                   point_idx, direction_forward, sweep_angles, sendState, wire,
                   measurements, error, failure>>

\* sweep_runner.run_sweep_test_swt: the measurement, under the runner's name
RunSweepTest ==
    /\ pc = "run_sweep_test_swt"
    /\ measurements' = Append(measurements,
          [sweep_name        |-> sweep_name,
           angles_list       |-> sweep_angles,
           ku_freq           |-> KU_FREQ_RANGE[freq_idx],
           phi_angle         |-> CurrentPoint[1],
           theta_angle       |-> CurrentPoint[2],
           direction_forward |-> direction_forward,
           wire_len          |-> Len(wire)])
    /\ pc' = "direction_update"
    /\ UNCHANGED <<config, direct, sweep_name, selection, ret, caller, pending, connected,
                   freq_idx, point_idx, direction_forward, sweep_angles, sendState, wire,
                   error, failure>>

\* perform_sweep returns, direction_forward is assigned, the loops advance
DirectionUpdate ==
    /\ pc = "direction_update"
    /\ direction_forward' = PerformSweepReturn(SWEEP_BOTH_DIRECTIONS, direction_forward)
    /\ IF point_idx < Len(PointOrder(phi_angles, theta_angles))
       THEN /\ point_idx' = point_idx + 1
            /\ pc' = "control"
            /\ theta_angles' \in (IF point_idx % Len(theta_angles) = 0
                                  THEN _select_theta_angles ELSE {theta_angles})
            /\ UNCHANGED <<freq_idx, phi_angles>>
       ELSE /\ freq_idx' = freq_idx + 1
            /\ pc' = "run_sweep_sequence"
            /\ UNCHANGED <<point_idx, selection>>
    /\ UNCHANGED <<config, direct, sweep_name, ret, caller, pending, connected, sweep_angles,
                   sendState, wire, measurements, error, failure>>

Next ==
    \/ CheckConnection
    \/ PowerCycle
    \/ SendOpen
    \/ SendWrite
    \/ SendRead
    \/ SendClose
    \/ RunStaticPoseSweep
    \/ RunSweepSequence
    \/ Control
    \/ PerformSweep
    \/ RunChamberSweep
    \/ RunSweepTest
    \/ DirectionUpdate

Spec == Init /\ [][Next]_vars

----------------------------------------------------------------------------
(* Functions that are called directly, outside a run *)

\* The state of a program that has not started a run, at position `at`
NoRun(at) ==
    /\ ARRAY_INTERFACE = LOCAL_INTERFACE
    /\ SWEEP_BOTH_DIRECTIONS = FALSE
    /\ ELEVATION_PHI_ADJUSTMENT = FALSE
    /\ KU_FREQ_RANGE = FreqList(1)
    /\ PHI_RANGE = RangeList(0, 181, 180)
    /\ THETA_RANGE = RangeList(0, 35, 5)
    /\ PHI_RANGE_RANDOM = FALSE
    /\ THETA_RANGE_RANDOM = FALSE
    /\ phi_angles = <<>>
    /\ theta_angles = <<>>
    /\ pc = at
    /\ ret = "none"
    /\ caller = "none"
    /\ pending = <<>>
    /\ connected = "unchecked"
    /\ freq_idx = 0
    /\ point_idx = 0
    /\ direction_forward = TRUE
    /\ sweep_angles = _calculate_sweep_angles(FALSE, FALSE, TRUE, 0, 0)
    /\ commands = <<>>
    /\ cmd_idx = 0
    /\ elapsed = 0
    /\ no_response = FALSE
    /\ ser_open = FALSE
    /\ call_start = 0
    /\ waited = 0
    /\ timeout_wait = -1
    /\ wire = <<>>
    /\ measurements = <<>>
    /\ error = "none"
    /\ failure = NoFailure
    /\ sweep_name = NoSweepName
    /\ programmer_runs = <<>>

run == <<config, selection, programmer_runs, pc, ret, caller, pending, connected, freq_idx,
         point_idx, direction_forward, sweep_angles, sendState, wire,
         measurements, error, failure, sweep_name>>

(* HardwareInterface.send_commands, called once with a list of commands *)

MaxCommands == 3        \* the list has 0..MaxCommands commands

CommandLists ==
    UNION {[1..n -> {get_power_command(FALSE), get_power_command(TRUE)}] :
              n \in 0..MaxCommands}

InitSend ==
    /\ ARRAY_INTERFACE = LOCAL_INTERFACE
    /\ SWEEP_BOTH_DIRECTIONS = FALSE
    /\ ELEVATION_PHI_ADJUSTMENT = FALSE
    /\ KU_FREQ_RANGE = FreqList(1)
    /\ PHI_RANGE = RangeList(0, 181, 180)
    /\ THETA_RANGE = RangeList(0, 35, 5)
    /\ PHI_RANGE_RANDOM = FALSE
    /\ THETA_RANGE_RANDOM = FALSE
    /\ phi_angles = <<>>
    /\ theta_angles = <<>>
    /\ pc = "send_open"
    /\ ret = "returned"
    /\ caller = "none"
    /\ pending = <<>>
    /\ connected = "unchecked"
    /\ freq_idx = 0
    /\ point_idx = 0
    /\ direction_forward = TRUE
    /\ sweep_angles = _calculate_sweep_angles(FALSE, FALSE, TRUE, 0, 0)
    /\ commands \in CommandLists
    /\ cmd_idx = 0
    /\ elapsed = 0
    /\ no_response = FALSE
    /\ ser_open = FALSE
    /\ call_start = 0
    /\ waited = 0
    /\ timeout_wait = -1
    /\ wire = <<>>
    /\ measurements = <<>>
    /\ error = "none"
    /\ failure = NoFailure
    /\ sweep_name = NoSweepName
    /\ call_args = <<>>
    /\ call_result = <<>>
    /\ programmer_runs = <<>>

NextSend == SendOpen \/ SendWrite \/ SendRead \/ SendClose

\* A readline() during which time advances: the clock of the call moves on,
\* or it already stands past the window, where it is no longer counted
TimedRead == SendRead /\ (elapsed' > elapsed \/ elapsed = ElapsedCap)

\* The call keeps running and time advances while it waits for an
\* acknowledgement. A device may send lines at once for ever; such reads
\* change nothing.
FairSend ==
    /\ WF_vars(SendOpen)
    /\ WF_vars(SendWrite)
    /\ WF_vars(SendClose)
    /\ WF_vars(TimedRead)

SpecSend == InitSend /\ [][NextSend]_vars /\ FairSend

(* HardwareInterface.to_attenuation_code, levels in tenths of a dB *)

MaxDbTenths == 60       \* db ranges over 0.0 .. 6.0 dB

MaxLossTenths == 20     \* insertion_loss_db ranges over 0.0 .. 2.0 dB

InitAtten ==
    /\ NoRun("to_attenuation_code")
    /\ call_args \in [db : 0..MaxDbTenths, insertion_loss_db : 0..MaxLossTenths]
    /\ call_result = <<>>

ToAttenuationCode ==
    /\ pc = "to_attenuation_code"
    /\ call_result' = to_attenuation_code(call_args.db, call_args.insertion_loss_db)
    /\ pc' = "to_attenuation_code returned"
    /\ UNCHANGED <<config, selection, programmer_runs, call_args, ret, caller, pending, connected,
                   freq_idx, point_idx, direction_forward, sweep_angles,
                   sendState, wire, measurements, error, failure, sweep_name>>

SpecAtten == InitAtten /\ [][ToAttenuationCode]_vars

(* array_translation_rotation_prototype.py: matrix_rotation, applied to a   *)
(* cell index again and again                                               *)

ROT_0 == 0

ROT_90 == 1

ROT_180 == 2

ROT_270 == 3

Rotations == {ROT_0, ROT_90, ROT_180, ROT_270}

MaxGrid == 4            \* nx and ny range over 1..MaxGrid

MaxApplied == 4         \* a rotation is applied up to MaxApplied times

\* matrix_rotation as it would be with nx - x for nx - 1 - x in ROT_90
matrix_rotation_OffByOne(i, nx, ny, rotation) ==
    LET x == i % nx
        y == i \div nx
    IN  IF rotation = ROT_90 THEN y + (nx - x) * ny
        ELSE IF rotation = ROT_180 THEN (nx - 1 - x) + (ny - 1 - y) * nx
        ELSE IF rotation = ROT_270 THEN x * nx + (ny - 1 - y)
        ELSE i

matrix_rotation(i, nx, ny, rotation) ==
    LET x == i % nx
        y == i \div nx
    IN  IF rotation = ROT_90 THEN y + (nx - 1 - x) * ny
        ELSE IF rotation = ROT_180 THEN (nx - 1 - x) + (ny - 1 - y) * nx
        ELSE IF rotation = ROT_270 THEN x * nx + (ny - 1 - y)
        ELSE i

InitRotation ==
    /\ NoRun("matrix_rotation")
    /\ \E nx \in 1..MaxGrid, ny \in 1..MaxGrid, rotation \in Rotations :
         \E i \in 0..(nx * ny - 1) :
            /\ call_args = [i |-> i, nx |-> nx, ny |-> ny, rotation |-> rotation,
                            applied |-> 0]
            /\ call_result = i

\* The result of the last call is rotated once more
MatrixRotation ==
    /\ pc = "matrix_rotation"
    /\ call_args.applied < MaxApplied
    /\ call_result' = matrix_rotation(call_result, call_args.nx, call_args.ny,
                                      call_args.rotation)
    /\ call_args' = [call_args EXCEPT !.applied = @ + 1]
    /\ UNCHANGED run

\* A list entry that no patch was assigned to
None == 0

\* patch_pos_update: new_patches[matrix_rotation(i)] = patches[i] for i in
\* range(nx * ny) in turn, a later assignment replacing an earlier one; an
\* index past the end of the list raises
patch_pos_update(array_rotation, nx, ny, patches) ==
    LET new_i(i) == matrix_rotation(i, nx, ny, array_rotation)
        sources(k) == {i \in 0..(nx * ny - 1) : new_i(i) = k}
    IN  IF \E i \in 0..(nx * ny - 1) : new_i(i) >= Len(patches)
        THEN [raises |-> "IndexError", patches |-> <<>>]
        ELSE [raises |-> "none",
              patches |-> [k \in 1..Len(patches) |->
                             IF sources(k - 1) = {} THEN None
                             ELSE patches[(CHOOSE i \in sources(k - 1) :
                                       \A j \in sources(k - 1) : j <= i) + 1]]]

\* The patches of an nx x ny grid, numbered from 1
Patches(nx, ny) == [k \in 1..(nx * ny) |-> k]

\* patch_pos_update is called for the whole grid
PatchPosUpdate ==
    /\ pc = "matrix_rotation"
    /\ call_args.applied = 0
    /\ call_args.i = 0
    /\ call_result' = patch_pos_update(call_args.rotation, call_args.nx, call_args.ny,
                                       Patches(call_args.nx, call_args.ny))
    /\ pc' = "patch_pos_update returned"
    /\ UNCHANGED <<config, selection, programmer_runs, call_args, ret, caller, pending, connected,
                   freq_idx, point_idx, direction_forward, sweep_angles,
                   sendState, wire, measurements, error, failure, sweep_name>>

NextRotation == MatrixRotation \/ PatchPosUpdate

SpecRotation == InitRotation /\ [][NextRotation]_vars

(* stm32_prog_windows.py: flash_all *)

MaxFiles == 3           \* flash_all gets 0..MaxFiles hex files

\* A hex file of the list: its path and whether the path exists
HexFiles == [path : {"a.hex", "b.hex"}, exists : BOOLEAN]

\* flash as it would be without the check that the hex file exists
flash_NoExistsCheck(hex_file, go) ==
    [raises |-> "none",
     args   |-> <<"-c", "port=SWD", "-w", hex_file.path, "-v">>
                   \o (IF go THEN <<"-g">> ELSE <<>>)]

\* flash: FileNotFoundError for a missing file, else the programmer's
\* arguments: program, verify and, with go, start
flash(hex_file, go) ==
    IF ~hex_file.exists
    THEN [raises |-> "FileNotFoundError", args |-> <<>>]
    ELSE [raises |-> "none",
          args   |-> <<"-c", "port=SWD", "-w", hex_file.path, "-v">>
                        \o (IF go THEN <<"-g">> ELSE <<>>)]

\* target_reset: the programmer's arguments
target_reset == <<"-c", "port=SWD", "mode=Normal">>

\* _run_programmer: subprocess.run(check=True); a CalledProcessError becomes
\* a RuntimeError
_run_programmer(args, ok) ==
    [args |-> args, raises |-> IF ok THEN "none" ELSE "RuntimeError"]

InitFlash ==
    /\ NoRun("flash_all")
    /\ \E n \in 0..MaxFiles : \E hex_files \in [1..n -> HexFiles] :
          call_args = [hex_files |-> hex_files, next |-> 1]
    /\ call_result = [raises |-> "none"]

\* flash_all: one pass of `for hex_file in hex_files: flash(hex_file)`
Flash ==
    /\ pc = "flash_all"
    /\ call_args.next <= Len(call_args.hex_files)
    /\ LET f == flash(call_args.hex_files[call_args.next], FALSE)
       IN  IF f.raises # "none"
           THEN /\ call_result' = [raises |-> f.raises]
                /\ pc' = "flash_all raised"
                /\ UNCHANGED <<call_args, programmer_runs>>
           ELSE \E ok \in BOOLEAN :
                   LET r == _run_programmer(f.args, ok)
                   IN  /\ programmer_runs' = Append(programmer_runs, r)
                       /\ IF r.raises # "none"
                          THEN /\ call_result' = [raises |-> r.raises]
                               /\ pc' = "flash_all raised"
                               /\ UNCHANGED call_args
                          ELSE /\ call_args' = [call_args EXCEPT !.next = @ + 1]
                               /\ UNCHANGED <<pc, call_result>>
    /\ UNCHANGED <<config, selection, ret, caller, pending, connected, freq_idx,
                   point_idx, direction_forward, sweep_angles, sendState, wire,
                   measurements, error, failure, sweep_name>>

\* flash_all: target_reset() after the loop, then return
TargetReset ==
    /\ pc = "flash_all"
    /\ call_args.next > Len(call_args.hex_files)
    /\ \E ok \in BOOLEAN :
          LET r == _run_programmer(target_reset, ok)
          IN  /\ programmer_runs' = Append(programmer_runs, r)
              /\ call_result' = [raises |-> r.raises]
              /\ pc' = IF r.raises = "none" THEN "flash_all returned"
                                            ELSE "flash_all raised"
    /\ UNCHANGED <<config, selection, call_args, ret, caller, pending, connected,
                   freq_idx, point_idx, direction_forward, sweep_angles, sendState,
                   wire, measurements, error, failure, sweep_name>>

NextFlash == Flash \/ TargetReset

SpecFlash == InitFlash /\ [][NextFlash]_vars

----------------------------------------------------------------------------
(* _calculate_sweep_angles on its own: perform_sweep is entered with any    *)
(* direction, any flags and one point (phi, theta).                         *)

MaxThetaSteps == 10     \* theta ranges over 0, 5, ..., 5 * MaxThetaSteps

AnglePhis == {30 * i : i \in 0..11}

AngleThetas == {5 * i : i \in 0..MaxThetaSteps}

InitAngles ==
    /\ ARRAY_INTERFACE = LOCAL_INTERFACE
    /\ SWEEP_BOTH_DIRECTIONS \in BOOLEAN
    /\ ELEVATION_PHI_ADJUSTMENT \in BOOLEAN
    /\ KU_FREQ_RANGE = FreqList(1)
    /\ PHI_RANGE \in {<<phi>> : phi \in AnglePhis}
    /\ THETA_RANGE \in {<<theta>> : theta \in AngleThetas}
    /\ PHI_RANGE_RANDOM = FALSE
    /\ THETA_RANGE_RANDOM = FALSE
    /\ phi_angles = PHI_RANGE
    /\ theta_angles = THETA_RANGE
    /\ pc = "perform_sweep"
    /\ ret = "none"
    /\ caller = "none"
    /\ pending = <<>>
    /\ connected = "unchecked"
    /\ freq_idx = 1
    /\ point_idx = 1
    /\ direction_forward \in BOOLEAN
    /\ sweep_angles = _calculate_sweep_angles(FALSE, FALSE, TRUE, 0, 0)
    /\ commands = <<>>
    /\ cmd_idx = 0
    /\ elapsed = 0
    /\ no_response = FALSE
    /\ ser_open = FALSE
    /\ call_start = 0
    /\ waited = 0
    /\ timeout_wait = -1
    /\ wire = <<>>
    /\ measurements = <<>>
    /\ error = "none"
    /\ failure = NoFailure
    /\ sweep_name = NoSweepName
    /\ call_args = <<>>
    /\ call_result = <<>>
    /\ programmer_runs = <<>>

SpecAngles == InitAngles /\ [][PerformSweep]_vars

----------------------------------------------------------------------------
(* _select_phi_angles and _select_theta_angles on their own: the functions  *)
(* are called with any direction state and at most one axis random; a       *)
(* deterministic selection is called any number of times, a random one once *)
(* per behaviour (a second call draws from the same outcomes).              *)

InitSelect ==
    /\ ARRAY_INTERFACE = LOCAL_INTERFACE
    /\ SWEEP_BOTH_DIRECTIONS \in BOOLEAN
    /\ ELEVATION_PHI_ADJUSTMENT = FALSE
    /\ KU_FREQ_RANGE = FreqList(1)
    /\ PHI_RANGE \in {RangeList(0, 181, step) : step \in PhiSteps}
    /\ THETA_RANGE \in {RangeList(0, stop, 5) : stop \in ThetaStops}
    /\ PHI_RANGE_RANDOM \in BOOLEAN
    /\ THETA_RANGE_RANDOM \in BOOLEAN
    /\ ~(PHI_RANGE_RANDOM /\ THETA_RANGE_RANDOM)
    /\ phi_angles = <<>>
    /\ theta_angles = <<>>
    /\ pc = "select"
    /\ ret = "none"
    /\ caller = "none"
    /\ pending = <<>>
    /\ connected = "unchecked"
    /\ freq_idx = 1
    /\ point_idx = 0
    /\ direction_forward \in BOOLEAN
    /\ sweep_angles = _calculate_sweep_angles(FALSE, FALSE, TRUE, 0, 0)
    /\ commands = <<>>
    /\ cmd_idx = 0
    /\ elapsed = 0
    /\ no_response = FALSE
    /\ ser_open = FALSE
    /\ call_start = 0
    /\ waited = 0
    /\ timeout_wait = -1
    /\ wire = <<>>
    /\ measurements = <<>>
    /\ error = "none"
    /\ failure = NoFailure
    /\ sweep_name = NoSweepName
    /\ call_args = <<>>
    /\ call_result = <<>>
    /\ programmer_runs = <<>>

\* One call of _select_phi_angles
SelectPhiAngles ==
    /\ pc = "select"
    /\ PHI_RANGE_RANDOM => phi_angles = <<>>
    /\ phi_angles' \in _select_phi_angles
    /\ UNCHANGED <<config, direct, sweep_name, theta_angles, pc, ret, caller, pending, connected,
                   freq_idx, point_idx, direction_forward, sweep_angles,
                   sendState, wire, measurements, error, failure>>

\* One call of _select_theta_angles
SelectThetaAngles ==
    /\ pc = "select"
    /\ THETA_RANGE_RANDOM => theta_angles = <<>>
    /\ theta_angles' \in _select_theta_angles
    /\ UNCHANGED <<config, direct, sweep_name, phi_angles, pc, ret, caller, pending, connected,
                   freq_idx, point_idx, direction_forward, sweep_angles,
                   sendState, wire, measurements, error, failure>>

NextSelect == SelectPhiAngles \/ SelectThetaAngles

SpecSelect == InitSelect /\ [][NextSelect]_vars

----------------------------------------------------------------------------
(* Vocabulary of the properties *)

PointsPerFrequency == Len(PHI_RANGE) * Len(THETA_RANGE)

NumPoints == Len(KU_FREQ_RANGE) * PointsPerFrequency

\* The commands written to the link by `who` for point k of frequency f
WrittenBy(who, f, k) ==
    LET Test(e) == e.caller = who /\ e.freq_idx = f /\ e.point_idx = k
        sel == SelectSeq(wire, Test)
    IN  [i \in 1..Len(sel) |-> sel[i].cmd]

Kinds(cmds) == [i \in 1..Len(cmds) |-> cmds[i].kind]

\* The k-th point of a run in the order frequency, phi, theta
ExpectedFrequency(k) == KU_FREQ_RANGE[((k - 1) \div PointsPerFrequency) + 1]

ExpectedPhi(k) == PHI_RANGE[(((k - 1) \div Len(THETA_RANGE)) % Len(PHI_RANGE)) + 1]

ExpectedTheta(k) == THETA_RANGE[((k - 1) % Len(THETA_RANGE)) + 1]

\* The run ended and no operation on the serial link raised
EndedWithoutLinkFailure == pc = "Done" /\ failure = NoFailure

LocalCommandKinds ==
    << "BAND_CONFIG_CMD", "CHANNEL_CONFIG_CMD",
       "BPL_ATTEN_CMD", "BPL_ATTEN_CMD", "BPL_ATTEN_CMD", "BPL_ATTEN_CMD",
       "IF_ATTEN_CMD",
       "ARRAY_STEER_CMD", "ARRAY_RF_ENABLE_CMD", "ARRAY_STEER_CMD", "ARRAY_RF_ENABLE_CMD",
       "ARRAY_STEER_CMD", "ARRAY_RF_ENABLE_CMD", "ARRAY_STEER_CMD", "ARRAY_RF_ENABLE_CMD" >>

SetupCommandKinds ==
    << "BAND_CONFIG_CMD", "CHANNEL_CONFIG_CMD",
       "BPL_ATTEN_CMD", "BPL_ATTEN_CMD", "BPL_ATTEN_CMD", "BPL_ATTEN_CMD",
       "IF_ATTEN_CMD", "MODEM_IF_CMD", "BEAM_INFO_CMD", "POINTING_GEN_CMD" >>

----------------------------------------------------------------------------
(* C1: in Local mode with deterministic selection, a run whose link never   *)
(* fails invokes the measurement once per (frequency, phi, theta) point,    *)
(* |frequencies| x |phi| x |theta| times (14 for one frequency, phi =       *)
(* [0, 180], theta = [0, 5, ..., 30]), under names that are pairwise        *)
(* distinct and carry the point's formatted frequency, phi and theta.       *)
C1_SweepCount ==
    (ARRAY_INTERFACE = LOCAL_INTERFACE /\ EndedWithoutLinkFailure) =>
        /\ Len(measurements) = NumPoints
        /\ \A j, k \in 1..Len(measurements) :
              j # k => measurements[j].sweep_name # measurements[k].sweep_name
        /\ \A k \in 1..Len(measurements) :
              /\ measurements[k].sweep_name.ku = FormatGHz(ExpectedFrequency(k))
              /\ measurements[k].sweep_name.phi = Digits(ExpectedPhi(k))
              /\ measurements[k].sweep_name.theta = Digits(ExpectedTheta(k))

(* C2: with SWEEP_BOTH_DIRECTIONS the direction starts True and is flipped  *)
(* once after every completed point, so the k-th point of the run sees True *)
(* exactly when k is odd, across phi and frequency boundaries; without the  *)
(* flag every point sees True.                                              *)
C2_DirectionAlternation ==
    /\ \A k \in 1..Len(measurements) :
          measurements[k].direction_forward =
              (IF SWEEP_BOTH_DIRECTIONS THEN k % 2 = 1 ELSE TRUE)
    /\ LET completed == IF pc = "direction_update"
                        THEN Len(measurements) - 1 ELSE Len(measurements)
       IN  direction_forward =
              (IF SWEEP_BOTH_DIRECTIONS THEN completed % 2 = 0 ELSE TRUE)

\* A run over two frequencies with an odd number of points per frequency
\* ended: the second frequency started with the reversed direction.
C2_Witness ==
    /\ SWEEP_BOTH_DIRECTIONS
    /\ pc = "Done"
    /\ error = "none"
    /\ Len(KU_FREQ_RANGE) = 2
    /\ PointsPerFrequency % 2 = 1
    /\ Len(measurements) = NumPoints
    /\ ~measurements[PointsPerFrequency + 1].direction_forward
    /\ measurements[PointsPerFrequency + 1].ku_freq # measurements[PointsPerFrequency].ku_freq

(* C3: the points are measured frequency-outermost, phi-major, theta-minor, *)
(* and the window handed to a measurement was computed from the direction   *)
(* the controller still holds when the measurement is invoked.              *)
C3_IterationOrder ==
    /\ \A k \in 1..Len(measurements) :
          /\ k <= NumPoints
          /\ measurements[k].ku_freq = ExpectedFrequency(k)
          /\ measurements[k].phi_angle = ExpectedPhi(k)
          /\ measurements[k].theta_angle = ExpectedTheta(k)
          /\ measurements[k].angles_list.az_start =
                (IF SWEEP_BOTH_DIRECTIONS /\ ~measurements[k].direction_forward
                 THEN -AZ_START ELSE AZ_START)
    /\ pc = "run_chamber_sweep" =>
          sweep_angles.az_start =
                (IF SWEEP_BOTH_DIRECTIONS /\ ~direction_forward
                 THEN -AZ_START ELSE AZ_START)

\* A complete run over two frequencies, three phi and seven theta values
C3_Witness ==
    /\ pc = "Done"
    /\ error = "none"
    /\ Len(KU_FREQ_RANGE) = 2
    /\ Len(PHI_RANGE) = 3
    /\ Len(THETA_RANGE) = 7
    /\ Len(measurements) = NumPoints
    /\ SWEEP_BOTH_DIRECTIONS

(* C4: in Local mode every point of a run whose link never fails dispatches *)
(* one command set of 15 commands: band configuration, channel              *)
(* configuration, four sub-array attenuations, IF attenuation, then for     *)
(* each of the four sub-arrays steering followed by RF enable.              *)
C4_LocalCommandSet ==
    (ARRAY_INTERFACE = LOCAL_INTERFACE /\ EndedWithoutLinkFailure) =>
        \A f \in 1..Len(KU_FREQ_RANGE), k \in 1..PointsPerFrequency :
            Kinds(WrittenBy("control_array", f, k)) = LocalCommandKinds

(* C5: in MessageForwarding mode the setup phase (RX attenuation, then      *)
(* pointing/band commands) of a frequency has been written to the link      *)
(* exactly once before any point of that frequency is measured.             *)
C5_SetupOncePerFrequency ==
    ARRAY_INTERFACE = MESSAGE_FORWARDING =>
        \A k \in 1..Len(measurements) :
            LET f == ((k - 1) \div PointsPerFrequency) + 1
                Test(e) == e.caller = "setup_array" /\ e.freq_idx = f
                before == SelectSeq(SubSeq(wire, 1, measurements[k].wire_len), Test)
            IN  [i \in 1..Len(before) |-> before[i].cmd.kind] = SetupCommandKinds

(* C6: in MessageForwarding mode the commands written for a measured point  *)
(* are the band/channel/attenuation/steering/RF-enable sequence of Local    *)
(* mode.                                                                    *)
C6_ForwardingEqualsLocal ==
    ARRAY_INTERFACE = MESSAGE_FORWARDING =>
        \A k \in 1..Len(measurements) :
            Kinds(WrittenBy("control_array",
                            ((k - 1) \div PointsPerFrequency) + 1,
                            ((k - 1) % PointsPerFrequency) + 1)) = LocalCommandKinds

(* C7: in PointingGenerator mode every point of a run whose link never      *)
(* fails dispatches exactly two commands: the pose command with roll 0,     *)
(* yaw 0, x 0, y 0 and pitch = theta if phi > 90 else 360 - theta, then the *)
(* pointing trigger.                                                        *)
C7_PointingGeneratorEncoding ==
    (ARRAY_INTERFACE = POINTING_GENERATOR /\ EndedWithoutLinkFailure) =>
        \A f \in 1..Len(KU_FREQ_RANGE), k \in 1..PointsPerFrequency :
            WrittenBy("control_array", f, k) =
                << [kind |-> "POSE_CMD",
                    args |-> <<0, IF ExpectedPhi(k) > 90 THEN ExpectedTheta(k)
                                  ELSE 360 - ExpectedTheta(k), 0, 0, 0>>],
                   [kind |-> "POINTING_GEN_CMD", args |-> <<>>] >>

(* C8: when check_connection returned False at the start of the run, no     *)
(* command is written to the link afterwards and no measurement is invoked. *)
C8_ConnectivityFailureFatal ==
    connected = "failed" =>
        /\ wire = <<>>
        /\ measurements = <<>>

(* C9: in send_commands, whatever the acknowledgements do, the commands of  *)
(* the list are written once each and in list order, a timeout on one       *)
(* command is followed by the write of the next, and the call ends          *)
(* abnormally only when an operation on the link raised.                    *)
C9_TimeoutNonFatal ==
    LET written == [i \in 1..(Len(wire) - call_start) |-> wire[call_start + i].cmd]
    IN  /\ pc = "send_write" => written = SubSeq(commands, 1, cmd_idx - 1)
        /\ pc = "send_read" => written = SubSeq(commands, 1, cmd_idx)
        /\ pc = "send_close" => written = commands
        /\ error = "SerialException" => failure # NoFailure

\* The first command of a list ran into the timeout and the second one has
\* been written
C9_Witness ==
    /\ pc = "send_read"
    /\ cmd_idx = 2
    /\ no_response
    /\ failure = NoFailure

(* C10: when a write or read on the link raises while a point's command set *)
(* is dispatched, the run is over: the port is closed, nothing more is      *)
(* written (no later command, no retry), and neither this point nor a later *)
(* one is measured.                                                         *)
C10_TransportFailureAborts ==
    (failure.op \in {"write", "read"} /\ caller = "control_array") =>
        /\ pc = "Done"
        /\ ~ser_open
        /\ Len(wire) = failure.wire_len
        /\ Len(measurements) = failure.measured
        /\ Len(measurements) = (freq_idx - 1) * PointsPerFrequency + point_idx - 1

\* The read after the first command of a later point raised
C10_Witness ==
    /\ failure.op = "read"
    /\ caller = "control_array"
    /\ cmd_idx = 1
    /\ Len(commands) = 2
    /\ measurements # <<>>
    /\ pc = "Done"

(* C11: every command of a list has its own acknowledgement window: its     *)
(* wait is only given up ("No response") once more than the window of 2 s   *)
(* has passed since that command was written, however long the earlier      *)
(* commands of the list took.                                               *)
C11_PerCommandWindow ==
    timeout_wait # -1 => timeout_wait > AckWindow

(* C12: with an interface mode that is none of the three known ones, the    *)
(* run ends at its first sweep point before anything is dispatched for it:  *)
(* the only commands ever written are those of the power cycle, and no      *)
(* point reaches its measurement.                                           *)
C12_UnknownInterfaceAborts ==
    ARRAY_INTERFACE \notin {LOCAL_INTERFACE, POINTING_GENERATOR, MESSAGE_FORWARDING} =>
        /\ \A i \in 1..Len(wire) : wire[i].caller = "power_cycle"
        /\ measurements = <<>>
        /\ pc \notin {"perform_sweep", "run_chamber_sweep", "run_sweep_test_swt",
                     "direction_update"}

\* A run with an unknown mode ended at its first point, after the power cycle
C12_Witness ==
    /\ ARRAY_INTERFACE = UNKNOWN_INTERFACE
    /\ pc = "Done"
    /\ error = "AttributeError"
    /\ freq_idx = 1
    /\ point_idx = 1
    /\ Len(wire) = 2

(* C13: the window's azimuth bounds are the mirrored (-AZ_START,            *)
(* -AZ_FINISH), that is 35/-35, exactly when SWEEP_BOTH_DIRECTIONS is on    *)
(* and the direction is backward, and the configured -35/35 otherwise; pol  *)
(* and horn bounds are always the configured ones, and so are the elevation *)
(* bounds when ELEVATION_PHI_ADJUSTMENT is off.                             *)
C13_AzimuthReversal ==
    pc = "run_chamber_sweep" =>
        /\ <<sweep_angles.az_start, sweep_angles.az_finish>> =
              (IF SWEEP_BOTH_DIRECTIONS /\ ~direction_forward
               THEN <<35, -35>> ELSE <<-35, 35>>)
        /\ sweep_angles.pol_start = POL_START
        /\ sweep_angles.pol_finish = POL_FINISH
        /\ sweep_angles.horn_start = HORN_START
        /\ sweep_angles.horn_finish = HORN_FINISH
        /\ ~ELEVATION_PHI_ADJUSTMENT =>
              /\ sweep_angles.el_start = EL_START * 1000
              /\ sweep_angles.el_finish = EL_FINISH * 1000

\* The window of a backward pass with both directions enabled
C13_Witness ==
    /\ pc = "run_chamber_sweep"
    /\ SWEEP_BOTH_DIRECTIONS
    /\ ~direction_forward
    /\ sweep_angles.az_start = 35
    /\ sweep_angles.az_finish = -35

(* C14: with ELEVATION_PHI_ADJUSTMENT on, el_start and el_finish are the    *)
(* same value, theta * sin(phi) clamped to the turntable limit of 20        *)
(* degrees on both sides: theta = 20 and theta = 50 at phi = 90 both give   *)
(* 20.                                                                      *)
C14_ElevationCoupling ==
    (pc = "run_chamber_sweep" /\ ELEVATION_PHI_ADJUSTMENT) =>
        LET phi == PHI_RANGE[1]
            theta == THETA_RANGE[1]
            raw == theta * SinMilli(phi)
            el == sweep_angles.el_start
        IN  /\ sweep_angles.el_finish = el
            /\ el >= -20000 /\ el <= 20000
            /\ el = (IF raw > 20000 THEN 20000 ELSE IF raw < -20000 THEN -20000 ELSE raw)
            /\ (phi = 90 /\ theta = 20) => el = 20000
            /\ (phi = 90 /\ theta = 50) => el = 20000
            /\ (phi = 270 /\ theta = 50) => el = -20000

\* theta = 50 at phi = 90 was clamped to the limit
C14_Witness ==
    /\ pc = "run_chamber_sweep"
    /\ ELEVATION_PHI_ADJUSTMENT
    /\ PHI_RANGE = <<90>>
    /\ THETA_RANGE = <<50>>
    /\ sweep_angles.el_start = 20000

(* C15: a randomized selection returns exactly 10 values, every phi value   *)
(* v with 0 <= v < 360 and every theta value v with 5 <= v <= 50.           *)
C15_RandomSelectionBounds ==
    /\ (PHI_RANGE_RANDOM /\ phi_angles # <<>>) =>
          /\ Len(phi_angles) = 10
          /\ \A i \in 1..Len(phi_angles) : phi_angles[i] >= 0 /\ phi_angles[i] < 360
    /\ (THETA_RANGE_RANDOM /\ theta_angles # <<>>) =>
          /\ Len(theta_angles) = 10
          /\ \A i \in 1..Len(theta_angles) : theta_angles[i] >= 5 /\ theta_angles[i] <= 50

(* C18: with the random flag of an axis off, every call of its selection    *)
(* returns the configured range as a list in configured order (start 0,     *)
(* stop 35, step 5 gives [0, 5, 10, 15, 20, 25, 30]), whatever the          *)
(* direction state is, and no call changes the direction state.             *)
C18_DeterministicSelection ==
    /\ [](/\ (~PHI_RANGE_RANDOM /\ phi_angles # <<>>) => phi_angles = PHI_RANGE
          /\ (~THETA_RANGE_RANDOM /\ theta_angles # <<>>) =>
                /\ theta_angles = THETA_RANGE
                /\ theta_angles[1] = 0
                /\ \A i \in 1..(Len(theta_angles) - 1) :
                      theta_angles[i + 1] = theta_angles[i] + 5
                /\ Len(THETA_RANGE) = 7 => theta_angles = <<0, 5, 10, 15, 20, 25, 30>>)
    /\ [][direction_forward' = direction_forward]_vars

\* Both deterministic selections were called while the direction was backward
C18_Witness ==
    /\ pc = "select"
    /\ ~PHI_RANGE_RANDOM
    /\ ~THETA_RANGE_RANDOM
    /\ ~direction_forward
    /\ phi_angles = <<0, 90, 180>>
    /\ theta_angles = <<0, 5, 10, 15, 20, 25, 30>>

(* C16: to_attenuation_code returns the quarter-dB code nearest to db minus *)
(* insertion loss when that difference is not negative and 0 otherwise, so  *)
(* never a negative code; (0.0, 1.6) gives 0 and (5.0, 1.6) gives 14.       *)
C16_AttenuationCode ==
    pc = "to_attenuation_code returned" =>
        LET d == call_args.db - call_args.insertion_loss_db
            code == call_result
        IN  /\ code \in Nat
            /\ d < 0 => code = 0
            /\ d >= 0 => (10 * code - 5 <= 4 * d /\ 4 * d <= 10 * code + 5)
            /\ (call_args.db = 0 /\ call_args.insertion_loss_db = 16) => code = 0
            /\ (call_args.db = 50 /\ call_args.insertion_loss_db = 16) => code = 14

\* to_attenuation_code(5.0, 1.6) returned 14
C16_Witness ==
    /\ pc = "to_attenuation_code returned"
    /\ call_args.db = 50
    /\ call_args.insertion_loss_db = 16
    /\ call_result = 14

(* C17: on a 2 x 2 and on a 4 x 4 grid, four rotations by 90 degrees and    *)
(* two rotations by 180 degrees bring every cell index back to itself.      *)
C17_RotationRoundTrip ==
    (pc = "matrix_rotation" /\ call_args.nx = call_args.ny /\ call_args.nx \in {2, 4}) =>
        /\ (call_args.rotation = ROT_90 /\ call_args.applied = 4) =>
              call_result = call_args.i
        /\ (call_args.rotation = ROT_180 /\ call_args.applied = 2) =>
              call_result = call_args.i

\* Cell 1 of the 4 x 4 grid is back after four rotations by 90 degrees
C17_Witness ==
    /\ pc = "matrix_rotation"
    /\ call_args = [i |-> 1, nx |-> 4, ny |-> 4, rotation |-> ROT_90, applied |-> 4]
    /\ call_result = 1

RECURSIVE Flatten(_)
\* The commands of several lists, in the order they are sent
Flatten(lists) == IF lists = <<>> THEN <<>> ELSE Head(lists) \o Flatten(Tail(lists))

\* The number of the point (f, p) in the run, with the selection unrandomized
PointNumber(f, p) == (f - 1) * PointsPerFrequency + p

\* The command set that configures the array for measurement m
CommandSet(m) ==
    Flatten(ConfigureArray(ARRAY_INTERFACE, m.ku_freq, m.phi_angle, m.theta_angle).sends)

\* What has happened when the measurements of a run are looked at
C19_MeasuredInOrder ==
    \A k \in 1..Len(measurements) :
        LET m == measurements[k]
            f == ((k - 1) \div PointsPerFrequency) + 1
            p == ((k - 1) % PointsPerFrequency) + 1
        IN  /\ WrittenBy("control_array", f, p) = CommandSet(m)
            /\ CommandSet(m) # <<>>
            /\ \A j \in 1..Len(wire) :
                  wire[j].caller = "control_array" =>
                     (j <= m.wire_len <=>
                         PointNumber(wire[j].freq_idx, wire[j].point_idx) <= k)
            /\ m.sweep_name = _generate_sweep_name(ARRAY_INTERFACE, m.ku_freq,
                                  MODEM_FREQ, m.phi_angle, m.theta_angle)
            /\ m.angles_list = _calculate_sweep_angles(SWEEP_BOTH_DIRECTIONS,
                                   ELEVATION_PHI_ADJUSTMENT, m.direction_forward,
                                   m.phi_angle, m.theta_angle)

\* Where the run stands when the measurement of a point is about to be invoked
C19_NamedBeforeMeasured ==
    pc = "run_sweep_test_swt" =>
        /\ Len(measurements) = PointNumber(freq_idx, point_idx) - 1
        /\ sweep_name = _generate_sweep_name(ARRAY_INTERFACE, KU_FREQ_RANGE[freq_idx],
                            MODEM_FREQ, CurrentPoint[1], CurrentPoint[2])
        /\ Flatten(ConfigureArray(ARRAY_INTERFACE, KU_FREQ_RANGE[freq_idx],
                                  CurrentPoint[1], CurrentPoint[2]).sends)
              = WrittenBy("control_array", freq_idx, point_idx)

\* What a step of the run may do, given how many points have been measured
C19_StepInOrder ==
    /\ direction_forward' # direction_forward =>
          /\ pc = "direction_update"
          /\ Len(measurements) = PointNumber(freq_idx, point_idx)
    /\ measurements' # measurements =>
          /\ pc = "run_sweep_test_swt"
          /\ Len(measurements') = Len(measurements) + 1
          /\ measurements'[Len(measurements')].sweep_name = sweep_name
          /\ measurements'[Len(measurements')].angles_list = sweep_angles
          /\ measurements'[Len(measurements')].direction_forward = direction_forward
    /\ (sweep_name' # sweep_name \/ sweep_angles' # sweep_angles) =>
          Len(measurements) = PointNumber(freq_idx, point_idx) - 1
    /\ (wire' # wire /\ caller = "control_array") =>
          /\ Len(measurements) = PointNumber(freq_idx, point_idx) - 1
          /\ wire'[Len(wire')].freq_idx = freq_idx
          /\ wire'[Len(wire')].point_idx = point_idx

(* C19: for every point, the point's command set is written to the link in  *)
(* full before the sweep name is generated and assigned; the name is        *)
(* assigned before the measurement is invoked; the measurement gets the     *)
(* window computed from the direction the point started with; the direction *)
(* is flipped only after the measurement; and no command or measurement of  *)
(* the next point comes before the measurement of this one.                 *)
C19_PerPointStepOrder ==
    /\ [](C19_MeasuredInOrder /\ C19_NamedBeforeMeasured)
    /\ [][C19_StepInOrder]_vars

\* The second point of a run that sweeps both directions has been measured,
\* backward, after its pose commands, and the direction is about to flip
C19_Witness ==
    /\ pc = "direction_update"
    /\ SWEEP_BOTH_DIRECTIONS
    /\ Len(measurements) = 2
    /\ ~measurements[2].direction_forward
    /\ measurements[2].angles_list.az_start = 35
    /\ ~direction_forward
    /\ WrittenBy("control_array", 1, 2) = CommandSet(measurements[2])
    /\ measurements[2].wire_len = Len(wire)

\* Idle 0, PowerCycling 1, per-frequency sweeping 2, Done 3
Phase ==
    IF pc = "main" THEN 0
    ELSE IF pc = "Done" THEN 3
    ELSE IF pc = "power_cycle" THEN 1
    ELSE IF pc \in {"send_open", "send_write", "send_read", "send_close"}
            /\ caller = "power_cycle" THEN 1
    ELSE 2

\* The positions of the wire that power_cycle wrote
PowerPositions == {j \in 1..Len(wire) : wire[j].caller = "power_cycle"}

\* Power-off, then power-on, each at most once and ahead of everything else;
\* both are there once the run is past a power cycle on a reachable link
C20_PowerCycleFirst ==
    LET n == Cardinality(PowerPositions)
    IN  /\ PowerPositions = 1..n
        /\ n <= 2
        /\ n >= 1 => wire[1].cmd = Cmd("POWER_OFF_CMD", <<>>)
        /\ n >= 2 => wire[2].cmd = Cmd("POWER_ON_CMD", <<>>)
        /\ n >= 1 => connected = "ok"
        /\ (connected = "ok" /\ (Phase = 2 \/ Len(wire) > n \/ measurements # <<>>)) =>
              n = 2

\* A step never leads back to an earlier phase, and a step of a finished run
\* writes and measures nothing
C20_PhasesForward ==
    /\ Phase' >= Phase
    /\ pc = "Done" =>
          /\ pc' = "Done"
          /\ wire' = wire
          /\ measurements' = measurements

(* C20: a run moves Idle -> PowerCycling -> sweeping -> Done and never back; *)
(* on a reachable link the power cycle writes power-off and then power-on,   *)
(* each exactly once, before any command of the first point; a run that is   *)
(* Done, normally or by abort, writes no command and measures nothing more.  *)
C20_RunStateMachine ==
    /\ []C20_PowerCycleFirst
    /\ [][C20_PhasesForward]_vars

\* A run on a reachable link was aborted by the link after its first
\* measurement: the power cycle is on the wire ahead of the pose commands
C20_Witness ==
    /\ pc = "Done"
    /\ connected = "ok"
    /\ failure # NoFailure
    /\ Len(measurements) = 1
    /\ Len(wire) > 2
    /\ wire[1].cmd.kind = "POWER_OFF_CMD"
    /\ wire[2].cmd.kind = "POWER_ON_CMD"
    /\ wire[3].caller = "control_array"

\* The dispatch of the current point ran into the acknowledgement timeout
\* and did not raise
PointTimedOut == no_response /\ caller = "control_array" /\ error = "none"

\* A point whose dispatch timed out is the next one to be measured, and it
\* has been measured when the direction is updated
C21_TimedOutPointInTurn ==
    /\ (PointTimedOut /\ pc \in {"perform_sweep", "run_chamber_sweep", "run_sweep_test_swt"}) =>
          Len(measurements) = PointNumber(freq_idx, point_idx) - 1
    /\ (PointTimedOut /\ pc = "direction_update") =>
          /\ Len(measurements) = PointNumber(freq_idx, point_idx)
          /\ measurements[Len(measurements)].phi_angle = CurrentPoint[1]
          /\ measurements[Len(measurements)].theta_angle = CurrentPoint[2]
    /\ \A k \in 1..Len(measurements) :
          /\ measurements[k].phi_angle = ExpectedPhi(k)
          /\ measurements[k].theta_angle = ExpectedTheta(k)

\* What the run does next after the dispatch of a point timed out
C21_TimedOutPointGoesOn ==
    PointTimedOut =>
       /\ pc = "send_close" =>
             /\ pc' = "perform_sweep"
             /\ <<freq_idx', point_idx'>> = <<freq_idx, point_idx>>
       /\ pc = "perform_sweep" => pc' = "run_chamber_sweep"
       /\ pc = "run_chamber_sweep" => pc' = "run_sweep_test_swt"
       /\ pc = "run_sweep_test_swt" =>
             /\ Len(measurements') = Len(measurements) + 1
             /\ pc' = "direction_update"
       /\ pc = "direction_update" =>
             /\ direction_forward' =
                   (IF SWEEP_BOTH_DIRECTIONS THEN ~direction_forward ELSE direction_forward)
             /\ IF point_idx < PointsPerFrequency
                THEN /\ pc' = "control"
                     /\ <<freq_idx', point_idx'>> = <<freq_idx, point_idx + 1>>
                ELSE /\ pc' = "run_sweep_sequence"
                     /\ freq_idx' = freq_idx + 1

(* C21: when the dispatch of a point only runs into acknowledgement         *)
(* timeouts, the point is still measured, the direction is still flipped    *)
(* if SWEEP_BOTH_DIRECTIONS is on, and the run goes on with the next        *)
(* (phi, theta) combination; no point is skipped or repeated.               *)
C21_AlwaysAdvance ==
    /\ []C21_TimedOutPointInTurn
    /\ [][C21_TimedOutPointGoesOn]_vars

\* The first point's dispatch timed out; it was measured, the direction was
\* flipped and the second point is about to be configured
C21_Witness ==
    /\ pc = "control"
    /\ PointTimedOut
    /\ SWEEP_BOTH_DIRECTIONS
    /\ point_idx = 2
    /\ Len(measurements) = 1
    /\ ~direction_forward

(* C22: with SWEEP_BOTH_DIRECTIONS on, the k-th point of the whole run,     *)
(* counted from 0 over all frequencies, phi and theta, is measured with the *)
(* azimuth window (AZ_START, AZ_FINISH) = (-35, 35) when k is even and with *)
(* (35, -35) when k is odd; the parity runs on across phi and frequency     *)
(* boundaries.                                                              *)
C22_AzimuthAlternation ==
    SWEEP_BOTH_DIRECTIONS =>
        \A n \in 1..Len(measurements) :
            LET k == n - 1
                w == measurements[n].angles_list
            IN  <<w.az_start, w.az_finish>> =
                   (IF k % 2 = 0 THEN <<AZ_START, AZ_FINISH>>
                                 ELSE <<-AZ_START, -AZ_FINISH>>)

\* With 21 points per frequency, the first point of the second frequency
\* (k = 21) was measured with the negated window and the next one without
C22_Witness ==
    /\ SWEEP_BOTH_DIRECTIONS
    /\ PointsPerFrequency = 21
    /\ Len(measurements) >= 23
    /\ measurements[22].ku_freq = KU_FREQ_RANGE[2]
    /\ measurements[22].angles_list.az_start = 35
    /\ measurements[22].angles_list.az_finish = -35
    /\ measurements[23].angles_list.az_start = -35

\* The positions of send_commands at which its port is open
PortPositions == {"send_write", "send_read", "send_close"}

\* A port handle is open only inside the call that opened it: in
\* send_commands, or in check_connection before its with block is left
C23_OpenOnlyInsideCall ==
    /\ ser_open => pc \in PortPositions \cup {"power_cycle"}
    /\ pc \in PortPositions => ser_open
    /\ pc \in {"main", "send_open"} => ~ser_open

\* A port is opened only by a call that starts, and when a call is left, by
\* return or by an exception, its port has been closed
C23_ClosedOnExit ==
    /\ (ser_open' /\ ~ser_open) => pc \in {"main", "send_open"}
    /\ (pc \in PortPositions \cup {"power_cycle"} /\ pc' \notin PortPositions) => ~ser_open'
    /\ (ser_open /\ ~ser_open') =>
          \/ pc \in {"send_close", "power_cycle"}
          \/ (pc \in PortPositions /\ error' = "SerialException")

(* C23: send_commands opens the serial port once per call and closes it on  *)
(* every exit path (return, after timeouts, when a write or read raises),   *)
(* and check_connection closes the port it opened; so at most one handle is *)
(* open at a time, and none between two dispatches or during a measurement. *)
C23_SerialSingleOwner ==
    /\ []C23_OpenOnlyInsideCall
    /\ [][C23_ClosedOnExit]_vars

\* After one measured point, a dispatch whose first command timed out was
\* ended by a read that raised, and the port is closed
C23_Witness ==
    /\ pc = "Done"
    /\ failure.op = "read"
    /\ no_response
    /\ Len(measurements) = 1
    /\ ~ser_open

(* C24: for every command list and every stream of responses (a device that *)
(* never answers, a device that sends other lines for ever), send_commands  *)
(* comes to its end, provided time advances: the acknowledgement loop of    *)
(* each command is left, and the call returns (or a raised error ends it).  *)
C24_DispatchTerminates ==
    /\ (pc = "send_read") ~> (pc # "send_read")
    /\ <>(pc \in {"returned", "Done"})

\* A call with MaxCommands commands returned although a command went
\* unacknowledged until the window had passed
C24_Witness ==
    /\ pc = "returned"
    /\ Len(wire) = MaxCommands
    /\ no_response
    /\ error = "none"

(* C25: for every grid nx, ny >= 1, square or not, and every rotation,      *)
(* matrix_rotation maps 0..nx*ny-1 one-to-one onto 0..nx*ny-1, so           *)
(* patch_pos_update returns a list of the same length that holds every      *)
(* patch exactly once: no None entry, no lost patch, no index out of range. *)
C25_RotationIsPermutation ==
    pc = "patch_pos_update returned" =>
        LET nx == call_args.nx
            ny == call_args.ny
            cells == 0..(nx * ny - 1)
            image == {matrix_rotation(i, nx, ny, call_args.rotation) : i \in cells}
        IN  /\ image = cells
            /\ call_result.raises = "none"
            /\ Len(call_result.patches) = nx * ny
            /\ {call_result.patches[k] : k \in 1..(nx * ny)} = 1..(nx * ny)

\* The programmer calls that program a hex file, and those that reset
FlashRuns == SelectSeq(programmer_runs, LAMBDA r : r.args # target_reset)

ResetRuns == SelectSeq(programmer_runs, LAMBDA r : r.args = target_reset)

(* C26: flash_all programs the hex files one at a time in list order and    *)
(* resets the target exactly once, only after every file was programmed     *)
(* with success; when file k fails (missing file or programmer error) no    *)
(* later file is programmed, no reset is issued and the error reaches the   *)
(* caller.                                                                  *)
C26_FlashAllOrdering ==
    pc \in {"flash_all", "flash_all returned", "flash_all raised"} =>
        LET hex_files == call_args.hex_files
            n == Len(FlashRuns)
        IN  /\ n <= Len(hex_files)
            /\ \A j \in 1..n :
                  /\ FlashRuns[j].args = <<"-c", "port=SWD", "-w", hex_files[j].path, "-v">>
                  /\ hex_files[j].exists
                  /\ programmer_runs[j] = FlashRuns[j]
                  /\ j < n => FlashRuns[j].raises = "none"
            /\ Len(ResetRuns) <= 1
            /\ Len(ResetRuns) = 1 =>
                  /\ n = Len(hex_files)
                  /\ \A j \in 1..n : FlashRuns[j].raises = "none"
                  /\ pc # "flash_all"
            /\ pc = "flash_all returned" =>
                  /\ Len(ResetRuns) = 1
                  /\ ResetRuns[1].raises = "none"
                  /\ call_result.raises = "none"
            /\ pc = "flash_all raised" =>
                  /\ call_result.raises \in {"FileNotFoundError", "RuntimeError"}
                  /\ call_result.raises = "FileNotFoundError" =>
                        /\ n < Len(hex_files)
                        /\ ~hex_files[n + 1].exists
                        /\ Len(ResetRuns) = 0
                  /\ call_result.raises = "RuntimeError" =>
                        programmer_runs[Len(programmer_runs)].raises = "RuntimeError"
            /\ \A j \in 1..Len(programmer_runs) :
                  programmer_runs[j].raises # "none" =>
                     /\ j = Len(programmer_runs)
                     /\ pc = "flash_all raised"
                     /\ call_result.raises = "RuntimeError"

\* The second of three files is missing: the first was programmed, the
\* third was not, the target was not reset and the error was raised
C26_Witness ==
    /\ pc = "flash_all raised"
    /\ Len(call_args.hex_files) = 3
    /\ ~call_args.hex_files[2].exists
    /\ call_args.hex_files[3].exists
    /\ Len(programmer_runs) = 1
    /\ programmer_runs[1].raises = "none"
    /\ call_result.raises = "FileNotFoundError"

====
